---- MODULE Spec2Model ----
(***************************************************************************)
(* Model of tap-optiply's extraction client (src/tap_optiply/client.py):   *)
(* the retry_with_backoff decorator, OptiplyAPI._make_request, the token   *)
(* request made at construction, the link-following pagination of          *)
(* OptiplyAPI.get_records and the offset pagination of get_products and    *)
(* its kin; of OptiplyAuthenticator (src/tap_optiply/auth.py); and of     *)
(* TapOptiplyStream.get_records (src/tap_optiply/streams.py) as the tap    *)
(* (src/tap_optiply/tap.py) builds and drives it.  The remote service is   *)
(* the environment: every invocation of the wrapped function receives one  *)
(* outcome chosen from ServerOutcomes.                                     *)
(***************************************************************************)
EXTENDS Integers, Sequences, FiniteSets, TLC

(* ------------------------------ bounds -------------------------------- *)
\* longest chain of pages a server serves in one pass
MaxPages == 2
\* largest number of records in one page
MaxPageLen == 1
\* calls of get_records a caller makes with one mapping
MaxPasses == 2
\* longest run of pages the service gives to an offset-paginated list
MaxListPages == 3
\* ticks of the clock while an authenticator is in use
MaxTicks == 5
\* POSTs an authenticator sends to the token endpoint
MaxTokenRequests == 3

\* records a stream takes from the client in one call of get_records
MaxEmitted == 2

(* ------------------------- program constants -------------------------- *)
\* @retry_with_backoff(max_retries=3, initial_delay=1.0) on _make_request
max_retries == 3
initial_delay == 1
\* default of the decorator's max_504_retries parameter
max_504_retries == 2
\* get_records: params["page[limit]"] = 50 when the caller gave none
DefaultPageLimit == 50
\* _make_request: params['page[limit]'] = 25 when no page[...] key is present
FallbackPageLimit == 25
\* _update_token: time.time() + expires_in - 60
TokenMargin == 60
\* get_products and its kin: page_size = 25
page_size == 25
\* is_token_valid: (self._token_expires_at - now) < 300
AuthBuffer == 300

(* ------------------------------ values -------------------------------- *)
\* Python None (and every falsy value) of the integer-valued token fields
None == 0
\* the access_token found in the configuration, when there is one
ConfigToken == 1
\* time.time() when the client is constructed
StartTime == 1000
\* a token_expires_at in the configuration that is already past
PastExpiry == 500
\* a token_expires_at in the configuration that lies in the future
FarFuture == 100000
\* expires_in of the token endpoint's answer
ExpiresIn == 3600

\* seconds between two readings of the clock by the authenticator
ClockStep == 100
\* expires_in values of the token endpoint's answers to the authenticator
ExpiresIns == {300, 500}
\* token_expires_at values an authenticator finds in the configuration
ConfigExpiries == {None, PastExpiry, StartTime + 300, StartTime + 500}

\* what requests.post to the token endpoint and the work on its answer can
\* come to: a complete token body, a 2xx body lacking a field, a non-2xx
\* status or transport error, or a complete body whose writing to the
\* config file fails
TokenAnswers ==
    {[kind |-> "ok", expires_in |-> e] : e \in ExpiresIns}
    \cup {[kind |-> "config_unwritable", expires_in |-> e] : e \in ExpiresIns}
    \cup {[kind |-> k, expires_in |-> 0] :
              k \in {"no_expires_in", "no_access_token", "request_error"}}
NoAnswer == [kind |-> "none", expires_in |-> 0]

\* values of the params dict: a number, the text of a number (what parse_qs
\* produces), or no entry for the key
IntVal(n) == <<"int", n>>
StrVal(n) == <<"str", n>>
Absent == <<"absent">>

\* "filter[buyOrderId]" stands for the parent filter of a line stream,
\* filter[buyOrderId] or filter[sellOrderId]
ParamKeys ==
    {"filter[accountId]", "filter[updatedAt][GT]", "filter[buyOrderId]",
     "page[limit]", "page[offset]"}

NoQuery == [k \in ParamKeys |-> Absent]
\* a links object without a "next" member
NoLink == [present |-> FALSE, query |-> NoQuery]
\* query strings a links.next URL may carry, as parse_qs reads them
NextLinks ==
    {[present |-> TRUE,
      query |-> [k \in ParamKeys |-> IF k = "page[offset]" THEN StrVal(0) ELSE Absent]],
     [present |-> TRUE,
      query |-> [k \in ParamKeys |->
                    IF k \in {"page[offset]", "page[limit]"} THEN StrVal(2) ELSE Absent]]}

\* a links.next URL whose query names no offset
LimitOnlyLink ==
    [present |-> TRUE,
     query |-> [k \in ParamKeys |-> IF k = "page[limit]" THEN StrVal(2) ELSE Absent]]

\* links.next is null (or a URL without a query): urlparse(None).query is
\* empty and parse_qs finds no parameter in it
NullLink == [present |-> TRUE, query |-> NoQuery]

\* what urlencode puts on the wire for a value: 7 and "7" are both sent as 7
Wire(v) == IF v = Absent THEN -1 ELSE v[2]

\* filter mappings a caller hands to get_records
CallerParams ==
    {NoQuery,
     [k \in ParamKeys |-> IF k = "filter[accountId]" THEN IntVal(7)
                          ELSE IF k = "page[offset]" THEN IntVal(4) ELSE Absent]}

\* status codes the service answers with
HttpStatuses == {200, 204, 401, 403, 404, 429, 500, 503, 504}

\* What session.request does on one invocation: a response with a status and
\* a body, or a transport exception.
ServerOutcomes ==
    {[kind |-> "response", status |-> s, body |-> "json"] : s \in HttpStatuses \ {204}}
    \cup {[kind |-> "response", status |-> 200, body |-> "invalid"],
          [kind |-> "response", status |-> 204, body |-> "empty"],
          [kind |-> "Timeout", status |-> 0, body |-> "empty"],
          [kind |-> "ConnectionError", status |-> 0, body |-> "empty"]}

\* the content of a JSON page: n records in data and the links object
PagePayloads ==
    {[n |-> n, next |-> l] : n \in 0..MaxPageLen,
                             l \in NextLinks \cup {LimitOnlyLink, NullLink, NoLink}}
NoPayload == [n |-> 0, next |-> NoLink]
\* the content of a page of an offset-paginated list: up to page_size records
ListPayloads == {[n |-> n, next |-> NoLink] : n \in 0..page_size}

\* a service that may fail, and one that never does
\* (open_ended: its last page, too, may carry a links.next member)
FailingServer ==
    [pages |-> MaxPages, len |-> MaxPageLen, links |-> NextLinks, open_ended |-> FALSE]
SteadyServer ==
    [pages |-> MaxPages, len |-> MaxPageLen,
     links |-> NextLinks \cup {LimitOnlyLink, NullLink}, open_ended |-> TRUE]
\* a service holding an offset-paginated list
ListServer ==
    [pages |-> MaxListPages, len |-> page_size, links |-> {}, open_ended |-> FALSE]

\* no "apiCredentials" entry in the client's config dict
NoCredentials == [access_token |-> None, token_expires_at |-> None]
\* the token fields of a config dict: the root keys and the nested entry
ConfigOf(tok, exp) ==
    [access_token |-> tok, token_expires_at |-> exp, apiCredentials |-> NoCredentials]

\* the threads that may be inside get_auth_headers at once
Callers == {"c1", "c2"}
\* no thread has called get_auth_headers
NoCallers == [c \in Callers |-> [pc |-> "idle", tok |-> None, headers |-> None]]

\* no stream has been asked for records
NoStream == [made |-> FALSE]

\* account_id of the tap's configuration
ConfigAccountId == 7
\* the instants of the start_date a configuration holds and of the bookmark
\* a state holds
StartDateInstant == 1
BookmarkInstant == 2
\* no timestamp: None, or no entry for the key
NoTime == <<"none">>
\* the text of an instant as the configuration or the state holds it
TextOf(n) == <<"text", n>>
\* dateutil's parse(text): the datetime of the instant the text names
Parse(text) == <<"datetime", text[2]>>
\* datetime.isoformat(): the ISO-8601 text of the datetime
IsoFormat(dt) == <<"iso", dt[2]>>
\* a key the JSON object does not have, and the JSON value null
Missing == <<"missing">>
Null == <<"null">>
\* a record without an attributes member
NoAttributes == [present |-> FALSE, updatedAt |-> Missing, name |-> Missing]
\* what a record of the service may hold under updatedAt
UpdatedAtValues == {Null, TextOf(StartDateInstant), TextOf(BookmarkInstant)}
\* the records api.get_records yields: a JSON:API resource object with an
\* id, perhaps an attributes object (with or without updatedAt, and with
\* another member), perhaps a top-level updatedAt of its own
ApiRecords ==
    {[id |-> 1, updatedAt |-> top, attributes |-> a] :
        top \in UpdatedAtValues \cup {Missing},
        a \in {NoAttributes} \cup
              {[present |-> TRUE, updatedAt |-> inner, name |-> Null] :
                  inner \in UpdatedAtValues \cup {Missing}}}

\* the context argument get_records is called with: None, a dict without
\* account_id (the SDK's sync passes None, the tests a start_date only),
\* or a dict that names the account
ContextArgs ==
    {[given |-> FALSE, account_id |-> None],
     [given |-> TRUE, account_id |-> None],
     [given |-> TRUE, account_id |-> ConfigAccountId]}

\* the id of the parent order a line stream is driven for
ParentOrderId == 3
\* the context a line stream is called with for one record of its parent:
\* get_child_context gives {"buyOrderId": record["id"]}; a context that also
\* names the account is tried as well
OrderContexts ==
    {[given |-> TRUE, account_id |-> a, buyOrderId |-> StrVal(ParentOrderId)] :
        a \in {None, ConfigAccountId}}
\* records of a line resource: one whose attributes.updatedAt differs from
\* its top-level updatedAt, one without attributes
LineRecords ==
    {r \in ApiRecords :
        \/ /\ r.updatedAt = TextOf(StartDateInstant)
           /\ r.attributes.present
           /\ r.attributes.updatedAt = TextOf(BookmarkInstant)
        \/ /\ r.updatedAt = Missing
           /\ ~r.attributes.present}

Basic == [scheme |-> "Basic", tok |-> None]
Bearer(tok) == [scheme |-> "Bearer", tok |-> tok]

NoException == [kind |-> "none", status |-> 0]
NoResponse == [out |-> [kind |-> "none", status |-> 0, body |-> "empty"],
               page |-> NoPayload]

VARIABLES
    pc,                     \* position of the single thread
    purpose,                \* who called _make_request: "token" or "page"
    delay,                  \* wrapper local
    retry_count,            \* wrapper local
    gateway_timeout_count,  \* wrapper local
    last_exception,         \* wrapper local
    hist,                   \* invocations of func in this wrapped call
    sleeps,                 \* time.sleep calls of this wrapped call
    response,               \* what the wrapped call returned
    raised,                 \* what the wrapped call (or the pass) raised
    now,                    \* time.time()
    token,                  \* self._token
    token_expires_at,       \* self._token_expires_at
    token_type,             \* self._token_type
    authorization,          \* session.headers["Authorization"]
    token_requests,         \* POSTs sent to the token endpoint
    params,                 \* the params dict of get_records
    pages,                  \* pages received in this pass
    yielded,                \* records yielded in this pass
    requests_sent,          \* params of the page requests of this pass
    served,                 \* JSON pages the service handed out in this pass
    caller_params,          \* the mapping as the caller first handed it over
    pass_no,                \* passes started with that mapping
    server,                 \* what the service holds: pages, page length, links
    offset,                 \* the offset local of get_products and its kin
    access_token,           \* OptiplyAuthenticator._access_token
    access_token_expires_at,\* OptiplyAuthenticator._token_expires_at
    config_file,            \* the token fields of the config file
    headers,                \* what get_auth_headers last gave its caller
    auth_call,              \* the last call of get_auth_headers, as it went
    issued,                 \* the token of the last refresh that succeeded
    callers,                \* threads inside get_auth_headers, each with its locals
    config,                 \* the token fields of OptiplyAPI._config
    stream,                 \* a TapOptiplyStream and the call of its get_records
    emitted                 \* records its get_records took from the client and yielded

vars == <<pc, purpose, delay, retry_count, gateway_timeout_count, last_exception,
          hist, sleeps, response, raised, now, token, token_expires_at,
          token_type, authorization, token_requests, params, pages, yielded,
          requests_sent, served, caller_params, pass_no, server, offset,
          access_token, access_token_expires_at, config_file, headers,
          auth_call, issued, callers, config, stream, emitted>>

tokenVars == <<token, token_expires_at, token_type, authorization>>
passVars == <<params, pages, yielded, requests_sent>>
ghostVars == <<caller_params, pass_no>>
serverVars == <<server>>
listVars == <<offset>>
authVars == <<access_token, access_token_expires_at, config_file, headers,
              auth_call, issued, callers>>
configVars == <<config>>
streamVars == <<stream, emitted>>

(* ------------------------- _make_request (func) ----------------------- *)
\* response.raise_for_status(): a 4xx or 5xx status raises HTTPError
RaisesForStatus(status) == status >= 400

\* The body of _make_request on one outcome of session.request: what the
\* wrapped function returns or raises.  A 2xx body that is not JSON raises
\* HTTPError("Invalid JSON response") inside the outer try; that error carries
\* no response, so the handler's e.response.status_code raises AttributeError.
MakeRequest(o) ==
    IF o.kind = "Timeout" THEN [kind |-> "Timeout", status |-> 0]
    ELSE IF o.kind = "ConnectionError" THEN [kind |-> "RequestException", status |-> 0]
    ELSE IF RaisesForStatus(o.status) THEN [kind |-> "HTTPError", status |-> o.status]
    ELSE IF o.status = 204 THEN [kind |-> "return", status |-> o.status]
    ELSE IF o.body # "json" THEN [kind |-> "AttributeError", status |-> 0]
    ELSE [kind |-> "return", status |-> o.status]

\* _make_request gives a GET whose params hold no page[...] key a page[limit]
DefaultPagination(p) ==
    IF p["page[limit]"] = Absent /\ p["page[offset]"] = Absent
    THEN [p EXCEPT !["page[limit]"] = IntVal(FallbackPageLimit)]
    ELSE p

\* the Authorization header a request goes out with: the token POST passes
\* its own Basic header, a page GET uses the session's header
SentAuthorization == IF purpose = "token" THEN Basic ELSE authorization

(* ---------------------- retry_with_backoff.wrapper -------------------- *)
\* the test made against another status code
IsGatewayTimeout_503(status) == status = 503

\* e.response.status_code == 504
IsGatewayTimeout(status) == status = 504

\* the budget test with a strict comparison
Within504Budget_Strict(g) == g < max_504_retries

\* gateway_timeout_count <= max_504_retries
Within504Budget(g) == g <= max_504_retries

\* the retry test with the limit itself allowed
MayRetry_OneMore(r) == r <= max_retries

\* retry_count < max_retries
MayRetry(r) == r < max_retries

\* a delay that grows by a constant instead of doubling
Backoff_Linear(d) == d + 1

\* delay *= 2
Backoff(d) == d * 2

\* the locals of wrapper at its first line, before the loop
WrapperEnter(who) ==
    /\ purpose' = who
    /\ delay' = initial_delay
    /\ last_exception' = NoException
    /\ retry_count' = 0
    /\ gateway_timeout_count' = 0
    /\ hist' = <<>>
    /\ sleeps' = <<>>
    /\ response' = NoResponse
    /\ raised' = NoException

\* one invocation of func with outcome o leaves its trace
Invoked(o) ==
    /\ hist' = Append(hist, [out |-> o, auth |-> SentAuthorization, at |-> now])
    /\ token_requests' = IF purpose = "token" THEN token_requests + 1 ELSE token_requests
    /\ params' = IF purpose # "token" THEN DefaultPagination(params) ELSE params
    /\ requests_sent' = IF purpose # "token" /\ hist = <<>>
                        THEN Append(requests_sent, DefaultPagination(params))
                        ELSE requests_sent

\* time.sleep(delay); delay *= 2; continue
SleepAndContinue(counter) ==
    /\ sleeps' = Append(sleeps, [delay |-> delay, counter |-> counter])
    /\ delay' = Backoff(delay)
    /\ pc' = "attempt"
    /\ raised' = raised

\* logger.error("All retries failed"); raise last_exception
RaiseLast(e) ==
    /\ pc' = "raised"
    /\ raised' = e
    /\ UNCHANGED <<sleeps, delay>>

\* the JSON bodies the service can answer the next request of a pass with:
\* it holds a finite run of pages and has no further page after the last
Serves(page) ==
    /\ pages < server.pages
    /\ IF purpose = "list"
       THEN /\ page \in ListPayloads
            /\ page.n = page_size => pages + 1 < server.pages
       ELSE /\ page \in PagePayloads
            /\ page.n <= server.len
            /\ page.next.present =>
                  /\ page.next \in server.links
                  /\ pages + 1 < server.pages \/ server.open_ended

\* try: return func(*args, **kwargs)
AttemptReturns ==
    /\ pc = "attempt"
    /\ \E o \in ServerOutcomes :
        /\ MakeRequest(o).kind = "return"
        /\ Invoked(o)
        /\ \E page \in PagePayloads \cup ListPayloads :
            /\ IF purpose = "token" \/ o.body # "json" THEN page = NoPayload
               ELSE Serves(page)
            /\ response' = [out |-> o, page |-> page]
            /\ served' = IF purpose # "token" /\ o.body = "json"
                         THEN Append(served, page) ELSE served
    /\ pc' = "returned"
    /\ UNCHANGED <<purpose, delay, retry_count, gateway_timeout_count, last_exception,
                   sleeps, raised, now, tokenVars, pages, yielded,
                   ghostVars, serverVars, configVars, streamVars, listVars, authVars>>

\* except HTTPError as e
ExceptHTTPError ==
    /\ pc = "attempt"
    /\ \E o \in ServerOutcomes :
        LET e == MakeRequest(o)
            g == IF IsGatewayTimeout(e.status) THEN gateway_timeout_count + 1
                 ELSE gateway_timeout_count
            charged504 == IsGatewayTimeout(e.status) /\ Within504Budget(g)
            r == IF charged504 THEN retry_count ELSE retry_count + 1
        IN  /\ e.kind = "HTTPError"
            /\ Invoked(o)
            /\ last_exception' = e
            /\ gateway_timeout_count' = g
            /\ retry_count' = r
            /\ IF charged504 THEN SleepAndContinue("504")
               ELSE IF MayRetry(r) THEN SleepAndContinue("general")
               ELSE RaiseLast(e)
    /\ UNCHANGED <<purpose, response, now, tokenVars, pages, yielded,
                   served, ghostVars, serverVars, configVars, streamVars, listVars, authVars>>

\* except Timeout as e
ExceptTimeout ==
    /\ pc = "attempt"
    /\ \E o \in ServerOutcomes :
        LET e == MakeRequest(o)
            r == retry_count + 1
        IN  /\ e.kind = "Timeout"
            /\ Invoked(o)
            /\ last_exception' = e
            /\ retry_count' = r
            /\ IF MayRetry(r) THEN SleepAndContinue("general")
               ELSE RaiseLast(e)
    /\ UNCHANGED <<purpose, gateway_timeout_count, response, now, tokenVars, pages, yielded,
                   served, ghostVars, serverVars, configVars, streamVars, listVars, authVars>>

\* any other exception treated like a Timeout: charged, slept on and retried
ExceptionPassesThrough_Retried ==
    /\ pc = "attempt"
    /\ \E o \in ServerOutcomes :
        LET e == MakeRequest(o)
            r == retry_count + 1
        IN  /\ e.kind \in {"RequestException", "AttributeError"}
            /\ Invoked(o)
            /\ last_exception' = e
            /\ retry_count' = r
            /\ IF MayRetry(r) THEN SleepAndContinue("general")
               ELSE RaiseLast(e)
    /\ UNCHANGED <<purpose, gateway_timeout_count, response, now, tokenVars, pages, yielded,
                   served, ghostVars, serverVars, configVars, streamVars, listVars, authVars>>

\* any other exception of func is caught by neither except clause
ExceptionPassesThrough ==
    /\ pc = "attempt"
    /\ \E o \in ServerOutcomes :
        LET e == MakeRequest(o)
        IN  /\ e.kind \in {"RequestException", "AttributeError"}
            /\ Invoked(o)
            /\ raised' = e
    /\ pc' = "raised"
    /\ UNCHANGED <<purpose, delay, retry_count, gateway_timeout_count, last_exception,
                   sleeps, response, now, tokenVars, pages, yielded,
                   served, ghostVars, serverVars, configVars, streamVars, listVars, authVars>>

(* ------------------- OptiplyAPI.__init__ / _update_token -------------- *)
\* not self._token or not self._token_expires_at or time.time() >= self._token_expires_at
NeedsInitialToken ==
    token = None \/ token_expires_at = None \/ now >= token_expires_at

\* str.capitalize() of the token types the service uses
Capitalize(t) == IF t = "bearer" THEN "Bearer" ELSE t

\* __init__ with a configured token that has not expired: no token request;
\* the header is rewritten only when a token type is known
ConstructReusesToken ==
    /\ pc = "new"
    /\ ~NeedsInitialToken
    /\ authorization' = IF token # None /\ token_type # "none"
                        THEN [scheme |-> Capitalize(token_type), tok |-> token]
                        ELSE authorization
    /\ pc' = "ready"
    /\ UNCHANGED <<purpose, delay, retry_count, gateway_timeout_count, last_exception,
                   hist, sleeps, response, raised, now, token, token_expires_at,
                   token_type, token_requests, passVars,
                   served, ghostVars, serverVars, configVars, streamVars, listVars, authVars>>

\* __init__ calls _update_token, which POSTs through _make_request
ConstructFetchesToken ==
    /\ pc = "new"
    /\ NeedsInitialToken
    /\ WrapperEnter("token")
    /\ pc' = "attempt"
    /\ UNCHANGED <<now, tokenVars, token_requests, passVars,
                   served, ghostVars, serverVars, configVars, streamVars, listVars, authVars>>

\* the expiry kept without a margin
StoredExpiry_NoMargin(t, expires_in) == t + expires_in

\* self._token_expires_at = time.time() + token_data["expires_in"] - 60
StoredExpiry(t, expires_in) == t + expires_in - TokenMargin

\* _update_token after the POST returned: read the token data, store it and
\* set the Bearer header; __init__ then rewrites the header from token_type.
\* A 204 answer has no body and auth_response.json() raises.
UpdateTokenStores ==
    /\ pc = "returned"
    /\ purpose = "token"
    /\ IF response.out.body = "json"
       THEN /\ token' = ConfigToken + token_requests
            /\ token_type' = "bearer"
            /\ token_expires_at' = StoredExpiry(now, ExpiresIn)
            /\ config' = [config EXCEPT !.apiCredentials =
                              [access_token |-> ConfigToken + token_requests,
                               token_expires_at |-> StoredExpiry(now, ExpiresIn)]]
            /\ authorization' = [scheme |-> Capitalize("bearer"),
                                 tok |-> ConfigToken + token_requests]
            /\ pc' = "ready"
            /\ raised' = raised
       ELSE /\ pc' = "init_failed"
            /\ raised' = [kind |-> "JSONDecodeError", status |-> 0]
            /\ UNCHANGED <<tokenVars, config>>
    /\ UNCHANGED <<purpose, delay, retry_count, gateway_timeout_count, last_exception,
                   hist, sleeps, response, now, token_requests, passVars,
                   served, ghostVars, serverVars, streamVars, listVars, authVars>>

\* the token request raised: __init__ raises and no client exists
UpdateTokenRaises ==
    /\ pc = "raised"
    /\ purpose = "token"
    /\ pc' = "init_failed"
    /\ UNCHANGED <<purpose, delay, retry_count, gateway_timeout_count, last_exception,
                   hist, sleeps, response, raised, now, tokenVars, token_requests,
                   passVars,
                   served, ghostVars, serverVars, configVars, streamVars, listVars, authVars>>

(* ----------------------- OptiplyAPI.get_records ----------------------- *)
\* a request dict built from the page keys alone
WithPageDefaults_Bare(p) ==
    [k \in ParamKeys |->
        IF k = "page[limit]" THEN IntVal(DefaultPageLimit)
        ELSE IF k = "page[offset]" THEN IntVal(0)
        ELSE Absent]

\* defaults for page[limit] and page[offset] written into the caller's dict
WithPageDefaults(p) ==
    [k \in ParamKeys |->
        IF k = "page[limit]" /\ p[k] = Absent THEN IntVal(DefaultPageLimit)
        ELSE IF k = "page[offset]" /\ p[k] = Absent THEN IntVal(0)
        ELSE p[k]]

\* params replaced by the query of the link
MergeNext_Replace(p, query) == query

\* for key, value in query_params.items(): params[key] = value[0]
MergeNext(p, query) ==
    [k \in ParamKeys |-> IF query[k] # Absent THEN query[k] ELSE p[k]]

\* for record in data.get("data", []): yield record
PageRecords(page, pageNo) == [i \in 1..page.n |-> <<pageNo, i>>]

\* a loop that also ends on a page without records
HasNext_NonEmpty(page) == page.next.present /\ page.n > 0

\* links = data.get("links", {}); "next" in links
HasNext(page) == page.next.present

\* get_records is called on a constructed client: first request of the pass
GetRecords ==
    /\ pc = "ready"
    /\ \E p \in CallerParams :
        /\ params' = WithPageDefaults(p)
        /\ caller_params' = p
    /\ pass_no' = 1
    /\ pages' = 0
    /\ yielded' = <<>>
    /\ requests_sent' = <<>>
    /\ served' = <<>>
    /\ WrapperEnter("page")
    /\ pc' = "attempt"
    /\ UNCHANGED <<now, tokenVars, token_requests,
                   serverVars, configVars, streamVars, listVars, authVars>>

\* data = response.json() on a response without a body raises
GetRecordsJsonFails ==
    /\ pc = "returned"
    /\ purpose = "page"
    /\ response.out.body # "json"
    /\ pc' = "pass_failed"
    /\ raised' = [kind |-> "JSONDecodeError", status |-> 0]
    /\ UNCHANGED <<purpose, delay, retry_count, gateway_timeout_count, last_exception,
                   hist, sleeps, response, now, tokenVars, token_requests, passVars,
                   served, ghostVars, serverVars, configVars, streamVars, listVars, authVars>>

\* the records are yielded; "next" not in links: break
GetRecordsLastPage ==
    /\ pc = "returned"
    /\ purpose = "page"
    /\ response.out.body = "json"
    /\ ~HasNext(response.page)
    /\ yielded' = yielded \o PageRecords(response.page, pages + 1)
    /\ pages' = pages + 1
    /\ pc' = "pass_done"
    /\ UNCHANGED <<purpose, delay, retry_count, gateway_timeout_count, last_exception,
                   hist, sleeps, response, raised, now, tokenVars, token_requests,
                   params, requests_sent,
                   served, ghostVars, serverVars, configVars, streamVars, listVars, authVars>>

\* the records are yielded; params take the query of links.next and the loop
\* calls _make_request again
GetRecordsFollowsNext ==
    /\ pc = "returned"
    /\ purpose = "page"
    /\ response.out.body = "json"
    /\ HasNext(response.page)
    /\ yielded' = yielded \o PageRecords(response.page, pages + 1)
    /\ pages' = pages + 1
    /\ params' = MergeNext(params, response.page.next.query)
    /\ WrapperEnter("page")
    /\ pc' = "attempt"
    /\ UNCHANGED <<now, tokenVars, token_requests, requests_sent,
                   served, ghostVars, serverVars, configVars, streamVars, listVars, authVars>>

\* the exception swallowed and the loop left as after a last page
GetRecordsRaises_Swallowed ==
    /\ pc = "raised"
    /\ purpose = "page"
    /\ pc' = "pass_done"
    /\ UNCHANGED <<purpose, delay, retry_count, gateway_timeout_count, last_exception,
                   hist, sleeps, response, raised, now, tokenVars, token_requests,
                   passVars,
                   served, ghostVars, serverVars, configVars, streamVars, listVars, authVars>>

\* _make_request raised: the exception leaves the generator
GetRecordsRaises ==
    /\ pc = "raised"
    /\ purpose = "page"
    /\ pc' = "pass_failed"
    /\ UNCHANGED <<purpose, delay, retry_count, gateway_timeout_count, last_exception,
                   hist, sleeps, response, raised, now, tokenVars, token_requests,
                   passVars,
                   served, ghostVars, serverVars, configVars, streamVars, listVars, authVars>>

\* get_records is called once more with the dict of the previous call: the
\* defaults go into that dict as the previous pass left it
GetRecordsAgain ==
    /\ pc \in {"pass_done", "pass_abandoned"}
    /\ pass_no < MaxPasses
    /\ params' = WithPageDefaults(params)
    /\ pass_no' = pass_no + 1
    /\ pages' = 0
    /\ yielded' = <<>>
    /\ requests_sent' = <<>>
    /\ served' = <<>>
    /\ WrapperEnter("page")
    /\ pc' = "attempt"
    /\ UNCHANGED <<now, tokenVars, token_requests, caller_params, serverVars, configVars, streamVars,
                   listVars, authVars>>

\* the consumer stops iterating the generator while a later page's records
\* are being yielded: the rest of that page is never asked for
GetRecordsAbandoned ==
    /\ pc = "returned"
    /\ purpose = "page"
    /\ response.out.body = "json"
    /\ pages >= 1
    /\ pc' = "pass_abandoned"
    /\ UNCHANGED <<purpose, delay, retry_count, gateway_timeout_count, last_exception,
                   hist, sleeps, response, raised, now, tokenVars, token_requests,
                   passVars, served, ghostVars, serverVars, configVars, streamVars, listVars, authVars>>

(* ------------------ OptiplyAPI.get_products and its kin --------------- *)
\* current_params = params.copy() if params else {}; current_params.update(
\* {"page[limit]": page_size, "page[offset]": offset})
ListParams(p, off) ==
    [k \in ParamKeys |->
        IF k = "page[limit]" THEN IntVal(page_size)
        ELSE IF k = "page[offset]" THEN IntVal(off)
        ELSE p[k]]

\* a test that also ends the loop on a full page
ShortPage_OrFull(n) == n <= page_size

\* len(records) < page_size
ShortPage(n) == n < page_size

\* offset += page_size
NextOffset(off) == off + page_size

\* get_products (get_suppliers, get_buy_orders, ...) is called on a
\* constructed client: the locals are set and the first page is requested
GetProducts ==
    /\ pc = "ready"
    /\ \E p \in CallerParams :
        /\ caller_params' = p
        /\ params' = ListParams(p, 0)
    /\ offset' = 0
    /\ pass_no' = 1
    /\ pages' = 0
    /\ yielded' = <<>>
    /\ requests_sent' = <<>>
    /\ served' = <<>>
    /\ WrapperEnter("list")
    /\ pc' = "attempt"
    /\ UNCHANGED <<now, tokenVars, token_requests, serverVars, configVars, streamVars, authVars>>

\* data = response.json() on a response without a body raises; the except
\* clause of the loop does not catch it
GetProductsJsonFails ==
    /\ pc = "returned"
    /\ purpose = "list"
    /\ response.out.body # "json"
    /\ pc' = "pass_failed"
    /\ raised' = [kind |-> "JSONDecodeError", status |-> 0]
    /\ UNCHANGED <<purpose, delay, retry_count, gateway_timeout_count, last_exception,
                   hist, sleeps, response, now, tokenVars, token_requests, passVars,
                   served, ghostVars, serverVars, configVars, streamVars, listVars, authVars>>

\* the records are yielded; len(records) < page_size: break
GetProductsLastPage ==
    /\ pc = "returned"
    /\ purpose = "list"
    /\ response.out.body = "json"
    /\ ShortPage(response.page.n)
    /\ yielded' = yielded \o PageRecords(response.page, pages + 1)
    /\ pages' = pages + 1
    /\ pc' = "pass_done"
    /\ UNCHANGED <<purpose, delay, retry_count, gateway_timeout_count, last_exception,
                   hist, sleeps, response, raised, now, tokenVars, token_requests,
                   params, requests_sent, served, ghostVars, serverVars, configVars, streamVars, listVars,
                   authVars>>

\* the records are yielded; the page was full: offset moves on by page_size
\* and the loop requests the next page with params built anew
GetProductsNextPage ==
    /\ pc = "returned"
    /\ purpose = "list"
    /\ response.out.body = "json"
    /\ ~ShortPage(response.page.n)
    /\ yielded' = yielded \o PageRecords(response.page, pages + 1)
    /\ pages' = pages + 1
    /\ offset' = NextOffset(offset)
    /\ params' = ListParams(caller_params, NextOffset(offset))
    /\ WrapperEnter("list")
    /\ pc' = "attempt"
    /\ UNCHANGED <<now, tokenVars, token_requests, requests_sent, served, ghostVars,
                   serverVars, configVars, streamVars, authVars>>

(* ------------------------- OptiplyAuthenticator ----------------------- *)
NoCall == [made |-> FALSE, at |-> 0, tok_before |-> None, exp_before |-> None,
           issued_before |-> [tok |-> None, at |-> 0, expires_in |-> 0],
           posted |-> FALSE, answer |-> NoAnswer, new_tok |-> None, raised |-> FALSE]
NoIssue == [tok |-> None, at |-> 0, expires_in |-> 0]

\* the buffer test with the boundary instant counted as too late
IsTokenValid_Inclusive(tok, exp, t) ==
    IF tok = None THEN FALSE
    ELSE IF exp = None THEN FALSE
    ELSE ~((exp - t) <= AuthBuffer)

\* is_token_valid at clock reading t
IsTokenValid(tok, exp, t) ==
    IF tok = None THEN FALSE
    ELSE IF exp = None THEN FALSE
    ELSE ~((exp - t) < AuthBuffer)

\* get_auth_headers: not self._access_token, or not self.is_token_valid()
NeedsRefresh(tok, exp, t) == tok = None \/ ~IsTokenValid(tok, exp, t)

\* the lifetime stored as if it were the instant of expiry
ExpiryOf_Relative(t, expires_in) == expires_in

\* now + int(token_json["expires_in"])
ExpiryOf(t, expires_in) == t + expires_in

\* update_access_token on answer a, which carries the token tok: the fields
\* are assigned one by one as the body is read, then the config is rewritten
AccessTokenAfter(a, tok) ==
    IF a.kind \in {"ok", "config_unwritable", "no_expires_in"} THEN tok ELSE access_token
ExpiresAtAfter(a) ==
    IF a.kind \in {"ok", "config_unwritable"} THEN ExpiryOf(now, a.expires_in)
    ELSE access_token_expires_at
ConfigAfter(a, tok) ==
    IF a.kind = "ok"
    THEN [access_token |-> tok, token_expires_at |-> ExpiryOf(now, a.expires_in)]
    ELSE config_file

\* get_auth_headers with a token that needs no refresh: the headers carry it
GetAuthHeadersKeeps ==
    /\ pc \in {"auth_ready", "auth_returned", "auth_raised"}
    /\ ~NeedsRefresh(access_token, access_token_expires_at, now)
    /\ headers' = access_token
    /\ auth_call' = [made |-> TRUE, at |-> now, tok_before |-> access_token,
                     exp_before |-> access_token_expires_at, issued_before |-> issued,
                     posted |-> FALSE, answer |-> NoAnswer, new_tok |-> None,
                     raised |-> FALSE]
    /\ pc' = "auth_returned"
    /\ UNCHANGED <<purpose, delay, retry_count, gateway_timeout_count, last_exception,
                   hist, sleeps, response, raised, now, tokenVars, token_requests,
                   passVars, served, ghostVars, serverVars, configVars, streamVars, listVars,
                   access_token, access_token_expires_at, config_file, issued,
                   callers>>

\* get_auth_headers with no token or one inside the buffer: one POST by
\* update_access_token; on a complete answer the headers carry the new token,
\* otherwise the call raises
GetAuthHeadersRefreshes ==
    /\ pc \in {"auth_ready", "auth_returned", "auth_raised"}
    /\ NeedsRefresh(access_token, access_token_expires_at, now)
    /\ token_requests < MaxTokenRequests
    /\ token_requests' = token_requests + 1
    /\ \E a \in TokenAnswers :
        LET tok == ConfigToken + token_requests + 1
        IN  /\ access_token' = AccessTokenAfter(a, tok)
            /\ access_token_expires_at' = ExpiresAtAfter(a)
            /\ config_file' = ConfigAfter(a, tok)
            /\ headers' = IF a.kind = "ok" THEN tok ELSE headers
            /\ issued' = IF a.kind = "ok"
                         THEN [tok |-> tok, at |-> now, expires_in |-> a.expires_in]
                         ELSE issued
            /\ auth_call' = [made |-> TRUE, at |-> now, tok_before |-> access_token,
                             exp_before |-> access_token_expires_at,
                             issued_before |-> issued, posted |-> TRUE, answer |-> a,
                             new_tok |-> tok, raised |-> a.kind # "ok"]
            /\ pc' = IF a.kind = "ok" THEN "auth_returned" ELSE "auth_raised"
    /\ UNCHANGED <<purpose, delay, retry_count, gateway_timeout_count, last_exception,
                   hist, sleeps, response, raised, now, tokenVars, passVars, served,
                   ghostVars, serverVars, configVars, streamVars, listVars,
                   callers>>

\* time passes between two calls
Tick ==
    /\ pc \in {"auth_ready", "auth_returned", "auth_raised"}
    /\ now < StartTime + MaxTicks * ClockStep
    /\ now' = now + ClockStep
    /\ UNCHANGED <<pc, purpose, delay, retry_count, gateway_timeout_count,
                   last_exception, hist, sleeps, response, raised, tokenVars,
                   token_requests, passVars, served, ghostVars, serverVars, configVars, streamVars, listVars,
                   authVars>>

(* ------------- get_auth_headers called from two threads --------------- *)
\* what the threads leave alone
CallerFrame ==
    UNCHANGED <<pc, purpose, delay, retry_count, gateway_timeout_count, last_exception,
                hist, sleeps, response, raised, now, tokenVars, passVars, served,
                ghostVars, serverVars, configVars, streamVars, listVars, headers,
                auth_call>>

\* thread c enters get_auth_headers and tests the token; when a refresh is
\* due it goes on into update_access_token and its requests.post is sent
\* (no lock is taken anywhere on the way)
CallerChecks(c) ==
    /\ callers[c].pc = "idle"
    /\ IF NeedsRefresh(access_token, access_token_expires_at, now)
       THEN /\ callers' = [callers EXCEPT ![c].pc = "posting",
                                          ![c].tok = ConfigToken + token_requests + 1]
            /\ token_requests' = token_requests + 1
       ELSE /\ callers' = [callers EXCEPT ![c].pc = "returning"]
            /\ token_requests' = token_requests
    /\ UNCHANGED <<access_token, access_token_expires_at, config_file, issued>>
    /\ CallerFrame

\* the answer to thread c's POST arrives and update_access_token works on it
CallerReceives(c) ==
    /\ callers[c].pc = "posting"
    /\ \E a \in TokenAnswers :
        /\ access_token' = AccessTokenAfter(a, callers[c].tok)
        /\ access_token_expires_at' = ExpiresAtAfter(a)
        /\ config_file' = ConfigAfter(a, callers[c].tok)
        /\ issued' = IF a.kind = "ok"
                     THEN [tok |-> callers[c].tok, at |-> now, expires_in |-> a.expires_in]
                     ELSE issued
        /\ callers' = [callers EXCEPT ![c].pc = IF a.kind = "ok" THEN "returning"
                                                ELSE "raised"]
    /\ UNCHANGED token_requests
    /\ CallerFrame

\* thread c builds the headers from self._access_token as it is now
CallerReturns(c) ==
    /\ callers[c].pc = "returning"
    /\ callers' = [callers EXCEPT ![c].pc = "done", ![c].headers = access_token]
    /\ UNCHANGED <<token_requests, access_token, access_token_expires_at, config_file,
                   issued>>
    /\ CallerFrame

(* ---------------------- TapOptiplyStream.get_records ------------------ *)
\* self.get_starting_timestamp(context) of the SDK's Stream: the bookmark of
\* the stream's state when there is one; without a bookmark the SDK may fall
\* back on the configured start_date or give None
StartingTimestamps(bookmark, start_date) ==
    IF bookmark # NoTime THEN {Parse(bookmark)}
    ELSE IF start_date # NoTime THEN {NoTime, Parse(start_date)}
    ELSE {NoTime}

\* the configured start date taken before the replication key value
StartingTime_StartDateFirst(rep_key, start_date) ==
    IF start_date # NoTime THEN Parse(start_date) ELSE rep_key

\* get_starting_time: start_date parsed when configured; rep_key or start_date
StartingTime(rep_key, start_date) ==
    IF rep_key # NoTime THEN rep_key
    ELSE IF start_date # NoTime THEN Parse(start_date)
    ELSE NoTime

\* params as get_records builds it from the starting time and from its
\* context argument
StreamParams(start, ctx) ==
    [k \in ParamKeys |->
        IF k = "filter[updatedAt][GT]" /\ start # NoTime THEN IsoFormat(start)
        ELSE IF k = "filter[accountId]" /\ ctx.given /\ ctx.account_id # None
             THEN IntVal(ctx.account_id)
        ELSE Absent]

\* get_records of a stream that discover_streams built (its constructor was
\* given the context {"account_id", "start_date"}, kept in self.context) is
\* called with a context argument: it builds params and starts the pass of
\* api.get_records
StreamGetRecords ==
    /\ pc = "ready"
    /\ \E bookmark \in {NoTime, TextOf(BookmarkInstant)},
          start_date \in {NoTime, TextOf(StartDateInstant)},
          ctx \in ContextArgs :
        \E rep_key \in StartingTimestamps(bookmark, start_date) :
            LET p == StreamParams(StartingTime(rep_key, start_date), ctx)
            IN  /\ stream' = [made |-> TRUE, bookmark |-> bookmark,
                              start_date |-> start_date, rep_key |-> rep_key,
                              context |-> ctx,
                              self_context |-> [account_id |-> ConfigAccountId]]
                /\ params' = WithPageDefaults(p)
                /\ caller_params' = p
    /\ pass_no' = 1
    /\ pages' = 0
    /\ yielded' = <<>>
    /\ requests_sent' = <<>>
    /\ served' = <<>>
    /\ WrapperEnter("page")
    /\ pc' = "attempt"
    /\ UNCHANGED <<now, tokenVars, token_requests, serverVars, configVars, emitted,
                   listVars, authVars>>

\* a top-level updatedAt that is kept when the record already has one
Flatten_KeepExisting(record) ==
    IF /\ record.attributes.present
       /\ record.attributes.updatedAt # Missing
       /\ record.updatedAt = Missing
    THEN [record EXCEPT !.updatedAt = record.attributes.updatedAt]
    ELSE record

\* if "attributes" in record and "updatedAt" in record["attributes"]:
\*     record["updatedAt"] = record["attributes"]["updatedAt"]
Flatten(record) ==
    IF record.attributes.present /\ record.attributes.updatedAt # Missing
    THEN [record EXCEPT !.updatedAt = record.attributes.updatedAt]
    ELSE record

\* one turn of the loop of get_records: the client yields a record, the
\* stream flattens it and yields it on
StreamYields ==
    /\ stream.made
    /\ Len(emitted) < MaxEmitted
    /\ \E record \in ApiRecords :
        emitted' = Append(emitted, [in |-> record, out |-> Flatten(record)])
    /\ UNCHANGED <<pc, purpose, delay, retry_count, gateway_timeout_count,
                   last_exception, hist, sleeps, response, raised, now, tokenVars,
                   token_requests, passVars, served, ghostVars, serverVars, configVars,
                   stream, listVars, authVars>>

(* ----------- BuyOrderLinesStream / SellOrderLinesStream -------------- *)
\* context and "buyOrderId" in context
HasOrder(ctx) == ctx.given /\ "buyOrderId" \in DOMAIN ctx

\* the parent filter sent together with the account filter
LineParams_WithAccount(ctx) ==
    [k \in ParamKeys |->
        IF k = "filter[buyOrderId]" THEN ctx.buyOrderId
        ELSE IF k = "filter[accountId]" /\ ctx.account_id # None
             THEN IntVal(ctx.account_id)
        ELSE Absent]

\* params = {"filter[buyOrderId]": context["buyOrderId"]}
LineParams(ctx) ==
    [k \in ParamKeys |-> IF k = "filter[buyOrderId]" THEN ctx.buyOrderId ELSE Absent]

\* get_records of a line stream: with the parent's order id in the context
\* it asks the client for the lines of that order; otherwise it hands over
\* to TapOptiplyStream.get_records. A line stream has no replication key, so
\* its state holds no bookmark.
LineStreamGetRecords ==
    /\ pc = "ready"
    /\ \E start_date \in {NoTime, TextOf(StartDateInstant)},
          ctx \in ContextArgs \cup OrderContexts :
        \E rep_key \in IF HasOrder(ctx) THEN {NoTime}
                       ELSE StartingTimestamps(NoTime, start_date) :
            LET p == IF HasOrder(ctx) THEN LineParams(ctx)
                     ELSE StreamParams(StartingTime(rep_key, start_date), ctx)
            IN  /\ stream' = [made |-> TRUE, bookmark |-> NoTime,
                              start_date |-> start_date, rep_key |-> rep_key,
                              context |-> ctx,
                              self_context |-> [account_id |-> ConfigAccountId]]
                /\ params' = WithPageDefaults(p)
                /\ caller_params' = p
    /\ pass_no' = 1
    /\ pages' = 0
    /\ yielded' = <<>>
    /\ requests_sent' = <<>>
    /\ served' = <<>>
    /\ WrapperEnter("page")
    /\ pc' = "attempt"
    /\ UNCHANGED <<now, tokenVars, token_requests, serverVars, configVars, emitted,
                   listVars, authVars>>

\* one turn of the loop over the records the client has yielded: with the
\* order id in the context the record is yielded as it came, otherwise the
\* base stream's loop flattens it
LineStreamYields ==
    /\ stream.made
    /\ Len(emitted) < MaxEmitted
    /\ Len(emitted) < Len(yielded)
    /\ \E record \in LineRecords :
        emitted' = Append(emitted,
                          [in |-> record,
                           out |-> IF HasOrder(stream.context) THEN record
                                   ELSE Flatten(record)])
    /\ UNCHANGED <<pc, purpose, delay, retry_count, gateway_timeout_count,
                   last_exception, hist, sleeps, response, raised, now, tokenVars,
                   token_requests, passVars, served, ghostVars, serverVars, configVars,
                   stream, listVars, authVars>>

(* --------------------- the clock during a long sync ------------------- *)
\* time.time() moves on while the caller works on the records of a page:
\* up to the stored expiry of the held token, or past it by the margin, which
\* is when the token endpoint's expires_in has run out
TimePasses ==
    /\ pc = "returned"
    /\ purpose = "page"
    /\ \E t \in {token_expires_at, token_expires_at + TokenMargin} :
        /\ t > now
        /\ now' = t
    /\ UNCHANGED <<pc, purpose, delay, retry_count, gateway_timeout_count,
                   last_exception, hist, sleeps, response, raised, tokenVars,
                   token_requests, passVars, served, ghostVars, serverVars, configVars,
                   streamVars, listVars, authVars>>

(* ------------------ a client built from a configuration -------------- *)
\* a later process: tap.api builds an OptiplyAPI from the config file as the
\* authenticator left it; __init__ reads the root keys
LoadConfig ==
    /\ pc \in {"auth_ready", "auth_returned", "auth_raised"}
    /\ config' = ConfigOf(config_file.access_token, config_file.token_expires_at)
    /\ token' = config_file.access_token
    /\ token_expires_at' = config_file.token_expires_at
    /\ token_type' = "none"
    /\ authorization' = Basic
    /\ pc' = "new"
    /\ UNCHANGED <<purpose, delay, retry_count, gateway_timeout_count, last_exception,
                   hist, sleeps, response, raised, now, token_requests, passVars,
                   served, ghostVars, serverVars, streamVars, listVars, authVars>>

\* another OptiplyAPI is built from the config dict the last one wrote to:
\* __init__ reads access_token and token_expires_at at the root of the dict
ConstructAgain ==
    /\ pc = "ready"
    /\ token_requests < MaxTokenRequests
    /\ token' = config.access_token
    /\ token_expires_at' = config.token_expires_at
    /\ token_type' = "none"
    /\ authorization' = Basic
    /\ pc' = "new"
    /\ UNCHANGED <<purpose, delay, retry_count, gateway_timeout_count, last_exception,
                   hist, sleeps, response, raised, now, token_requests, passVars,
                   served, ghostVars, serverVars, configVars, streamVars, listVars,
                   authVars>>

(* --------------------------- specification ---------------------------- *)
\* the locals of a wrapper that has not been entered and an idle pass
Quiet ==
    /\ purpose = "none"
    /\ delay = initial_delay
    /\ retry_count = 0
    /\ gateway_timeout_count = 0
    /\ last_exception = NoException
    /\ hist = <<>>
    /\ sleeps = <<>>
    /\ response = NoResponse
    /\ raised = NoException
    /\ now = StartTime
    /\ params = NoQuery
    /\ pages = 0
    /\ yielded = <<>>
    /\ requests_sent = <<>>
    /\ served = <<>>
    /\ caller_params = NoQuery
    /\ pass_no = 0
    /\ offset = 0
    /\ stream = NoStream
    /\ emitted = <<>>

\* no OptiplyAuthenticator in play
NoAuthenticator ==
    /\ access_token = None
    /\ access_token_expires_at = None
    /\ config_file = [access_token |-> None, token_expires_at |-> None]
    /\ headers = None
    /\ auth_call = NoCall
    /\ issued = NoIssue
    /\ callers = NoCallers

\* before __init__ runs: the token fields as the configuration gives them
InitNew ==
    /\ pc = "new"
    /\ Quiet
    /\ token \in {None, ConfigToken}
    /\ token_expires_at \in {None, PastExpiry, FarFuture}
    /\ token_type = "none"
    /\ authorization = Basic
    /\ token_requests = 0
    /\ server = FailingServer
    /\ config = ConfigOf(token, token_expires_at)
    /\ NoAuthenticator

NextConstruct ==
    \/ ConstructReusesToken
    \/ ConstructFetchesToken
    \/ UpdateTokenStores
    \/ UpdateTokenRaises
    \/ AttemptReturns
    \/ ExceptHTTPError
    \/ ExceptTimeout
    \/ ExceptionPassesThrough

\* construction of the client, up to the constructed client or the error
SpecConstruct == InitNew /\ [][NextConstruct]_vars

\* a constructed client: it reused the configured token (no token type is
\* known, the header stays Basic), or its first token request succeeded
Constructed ==
    /\ pc = "ready"
    /\ Quiet
    /\ NoAuthenticator
    /\ \/ /\ token = ConfigToken
          /\ token_expires_at = FarFuture
          /\ token_type = "none"
          /\ authorization = Basic
          /\ token_requests = 0
          /\ config = ConfigOf(ConfigToken, FarFuture)
       \/ /\ token = ConfigToken + 1
          /\ token_expires_at = StartTime + ExpiresIn - TokenMargin
          /\ token_type = "bearer"
          /\ authorization = Bearer(ConfigToken + 1)
          /\ token_requests = 1
          /\ config = [ConfigOf(None, None) EXCEPT !.apiCredentials =
                          [access_token |-> ConfigToken + 1,
                           token_expires_at |-> StartTime + ExpiresIn - TokenMargin]]

Init ==
    /\ Constructed
    /\ server = FailingServer

Next ==
    \/ GetRecords
    \/ AttemptReturns
    \/ ExceptHTTPError
    \/ ExceptTimeout
    \/ ExceptionPassesThrough
    \/ GetRecordsJsonFails
    \/ GetRecordsLastPage
    \/ GetRecordsFollowsNext
    \/ GetRecordsRaises

\* one pass of get_records on a constructed client
Spec == Init /\ [][Next]_vars

\* a constructed client and a service that answers every request
InitPages ==
    /\ Constructed
    /\ server = SteadyServer

NextPages ==
    \/ GetRecords
    \/ GetRecordsAgain
    \/ AttemptReturns
    \/ GetRecordsJsonFails
    \/ GetRecordsLastPage
    \/ GetRecordsFollowsNext
    \/ GetRecordsAbandoned

\* passes of get_records over one mapping against a service that answers
\* every request
SpecPages == InitPages /\ [][NextPages]_vars

\* a constructed client and a service holding an offset-paginated list
InitList ==
    /\ Constructed
    /\ server = ListServer

NextList ==
    \/ GetProducts
    \/ AttemptReturns
    \/ GetProductsJsonFails
    \/ GetProductsLastPage
    \/ GetProductsNextPage

\* one pass of an offset-paginated list method against a service that
\* answers every request
SpecList == InitList /\ [][NextList]_vars

\* an authenticator as __init__ leaves it: the token fields as the
\* configuration gives them
InitAuth ==
    /\ pc = "auth_ready"
    /\ Quiet
    /\ token = None
    /\ token_expires_at = None
    /\ token_type = "none"
    /\ authorization = Basic
    /\ token_requests = 0
    /\ server = FailingServer
    /\ config = ConfigOf(None, None)
    /\ access_token \in {None, ConfigToken}
    /\ access_token_expires_at \in ConfigExpiries
    /\ config_file = [access_token |-> access_token,
                      token_expires_at |-> access_token_expires_at]
    /\ headers = None
    /\ auth_call = NoCall
    /\ issued = NoIssue
    /\ callers = NoCallers

NextAuth ==
    \/ GetAuthHeadersKeeps
    \/ GetAuthHeadersRefreshes
    \/ Tick

\* calls of get_auth_headers on one authenticator while the clock runs
SpecAuth == InitAuth /\ [][NextAuth]_vars

\* a configuration to build a client from, or an authenticator in use
InitReuse == InitNew \/ InitAuth

NextReuse ==
    \/ GetAuthHeadersKeeps
    \/ GetAuthHeadersRefreshes
    \/ Tick
    \/ LoadConfig
    \/ ConstructReusesToken
    \/ ConstructFetchesToken
    \/ AttemptReturns
    \/ UpdateTokenStores
    \/ ConstructAgain

\* tokens minted by the authenticator and by the client, and clients built
\* from the configuration each of them leaves, with a token endpoint that
\* answers the client every time
SpecReuse == InitReuse /\ [][NextReuse]_vars

\* a client whose token request at construction succeeded, and a service
\* that answers every request
InitSync ==
    /\ Constructed
    /\ token_type = "bearer"
    /\ server = SteadyServer

NextSync ==
    \/ GetRecords
    \/ AttemptReturns
    \/ GetRecordsJsonFails
    \/ GetRecordsLastPage
    \/ GetRecordsFollowsNext
    \/ TimePasses

\* one pass of get_records while the clock runs toward the token's expiry
SpecSync == InitSync /\ [][NextSync]_vars

NextStream ==
    \/ StreamGetRecords
    \/ AttemptReturns
    \/ GetRecordsJsonFails
    \/ GetRecordsLastPage
    \/ GetRecordsFollowsNext

\* one sync of a stream of the tap: TapOptiplyStream.get_records drives one
\* pass of the client's get_records against a service that answers every
\* request
SpecStream == InitSync /\ [][NextStream]_vars

NextFlatten ==
    \/ StreamGetRecords
    \/ StreamYields

\* a call of TapOptiplyStream.get_records and its loop over the records the
\* client yields, whatever pages they came in
SpecFlatten == InitSync /\ [][NextFlatten]_vars

NextLines ==
    \/ LineStreamGetRecords
    \/ AttemptReturns
    \/ GetRecordsJsonFails
    \/ GetRecordsLastPage
    \/ GetRecordsFollowsNext
    \/ LineStreamYields

\* one sync of a line stream: its get_records drives one pass of the client's
\* get_records and yields the records on
SpecLines == InitSync /\ [][NextLines]_vars

NextFlight ==
    \/ \E c \in Callers : CallerChecks(c)
    \/ \E c \in Callers : CallerReceives(c)
    \/ \E c \in Callers : CallerReturns(c)

\* two threads, each calling get_auth_headers once on one authenticator
SpecFlight == InitAuth /\ [][NextFlight]_vars

TypeOK ==
    /\ pc \in {"new", "attempt", "returned", "raised", "ready", "init_failed",
               "pass_done", "pass_failed", "pass_abandoned",
               "auth_ready", "auth_returned", "auth_raised"}
    /\ retry_count \in 0..max_retries
    /\ Len(hist) <= max_retries + max_504_retries

(* ------------------------------ properties ---------------------------- *)
\* the wrapped call that hist describes has returned or raised
WrapperEnded == pc \in {"returned", "raised", "pass_done", "pass_failed", "init_failed"}

LastCall == hist[Len(hist)]

N504 == Cardinality({i \in DOMAIN hist : hist[i].out.status = 504})
NTimeout == Cardinality({i \in DOMAIN hist : hist[i].out.kind = "Timeout"})
NOtherHttp == Cardinality({i \in DOMAIN hist :
                  hist[i].out.status >= 400 /\ hist[i].out.status # 504})
\* 504 answers received after the gateway-timeout budget was used up
NOverBudget504 == IF N504 > max_504_retries THEN N504 - max_504_retries ELSE 0

\* C1: when every invocation of a wrapped call was answered with 504, the
\* call ends after max_504_retries retries (max_504_retries + 1 invocations)
\* by raising the 504 error.
C1_Always504StopsAfter504Budget ==
    (WrapperEnded /\ hist # <<>> /\ \A i \in DOMAIN hist : hist[i].out.status = 504)
        => /\ Len(hist) = max_504_retries + 1
           /\ Len(sleeps) = max_504_retries
           /\ raised.kind = "HTTPError"
           /\ raised.status = 504

\* C2: when the first invocation is answered 504 and the second 200 with a
\* JSON body, the wrapped call has returned the second response after exactly
\* two invocations and one sleep, one retry recorded on the gateway-timeout
\* counter and none on the general counter.
C2_One504ThenSuccess ==
    (/\ Len(hist) >= 2
     /\ hist[1].out.status = 504
     /\ hist[2].out.status = 200
     /\ hist[2].out.body = "json")
        => /\ Len(hist) = 2
           /\ pc # "attempt"
           /\ response.out = hist[2].out
           /\ raised.kind \in {"none", "JSONDecodeError"}
           /\ Len(sleeps) = 1
           /\ sleeps[1].delay = initial_delay
           /\ gateway_timeout_count = 1
           /\ retry_count = 0

C2_Witness ==
    /\ pc = "returned"
    /\ Len(hist) = 2
    /\ hist[1].out.status = 504
    /\ hist[2].out.status = 200
    /\ hist[2].out.body = "json"
    /\ response.out = hist[2].out

\* C3: a first answer of 403, 404 or 500 ends the wrapped call: one
\* invocation, no sleep, no further attempt.
C3_FatalStatusSurfacedAtOnce ==
    (hist # <<>> /\ hist[1].out.status \in {403, 404, 500})
        => /\ Len(hist) = 1
           /\ sleeps = <<>>
           /\ pc # "attempt"

\* C4: after a 401 on a page request the request is issued at most once more,
\* and that second invocation carries a token other than the refused one.
C4_Unauthorized_RefreshAndRetryOnce ==
    (purpose = "page" /\ hist # <<>> /\ hist[1].out.status = 401)
        => /\ Len(hist) <= 2
           /\ Len(hist) = 2 => hist[2].auth # hist[1].auth
           /\ (Len(hist) = 2 /\ hist[2].out.status = 401) => pc # "attempt"

\* C5: a 429 answer is never followed by another invocation of the request.
C5_RateLimitNotRetried ==
    \A i \in DOMAIN hist :
        hist[i].out.status = 429 => (i = Len(hist) /\ pc # "attempt")

\* C6: when every invocation of a wrapped call timed out, the call ends
\* after max_retries retries (max_retries + 1 invocations) by raising Timeout.
C6_AlwaysTimeoutStopsAfterMaxRetries ==
    (WrapperEnded /\ hist # <<>> /\ \A i \in DOMAIN hist : hist[i].out.kind = "Timeout")
        => /\ Len(hist) = max_retries + 1
           /\ Len(sleeps) = max_retries
           /\ raised.kind = "Timeout"

\* C7: the two counters are independent: the gateway-timeout counter counts
\* the 504 answers and nothing else (no Timeout moves it), and the general
\* counter counts the Timeouts, the other HTTP errors and the 504 answers
\* beyond the budget, so a 504 retried within the budget never moves it; a
\* Timeout is therefore retried or raised according to the general charges
\* alone.
C7_CountersIndependent ==
    /\ gateway_timeout_count = N504
    /\ retry_count = NTimeout + NOtherHttp + NOverBudget504
    /\ (hist # <<>> /\ LastCall.out.kind = "Timeout")
        => ((pc = "attempt") <=> (NTimeout + NOtherHttp + NOverBudget504 < max_retries))

C7_Witness ==
    /\ pc = "attempt"
    /\ Len(hist) = 4
    /\ N504 = max_504_retries
    /\ NTimeout = 2
    /\ LastCall.out.kind = "Timeout"
    /\ retry_count = 2
    /\ gateway_timeout_count = max_504_retries

\* 2^k
RECURSIVE Pow2(_)
Pow2(k) == IF k <= 0 THEN 1 ELSE 2 * Pow2(k - 1)

\* position of the i-th sleep among the sleeps charged to the same counter
RankInCounter(i) ==
    Cardinality({j \in 1..i : sleeps[j].counter = sleeps[i].counter})

\* C8 (as stated): every counter has a delay sequence of its own, the k-th
\* retry charged to a counter sleeping initial_delay * 2^(k-1).
C8_DelayPerCounter ==
    \A i \in DOMAIN sleeps :
        sleeps[i].delay = initial_delay * Pow2(RankInCounter(i) - 1)

\* C8 (amended): the counters share one delay sequence: the n-th sleep of a
\* wrapped call, whichever counter it is charged to, lasts
\* initial_delay * 2^(n-1), and the next one will last twice the last.
C8_DelaySharedByCounters ==
    /\ \A i \in DOMAIN sleeps : sleeps[i].delay = initial_delay * Pow2(i - 1)
    /\ delay = initial_delay * Pow2(Len(sleeps))

C8_Witness ==
    /\ Len(sleeps) = 3
    /\ sleeps[1].counter = "504"
    /\ sleeps[2].counter = "504"
    /\ sleeps[3].counter = "general"
    /\ sleeps[3].delay = 4 * initial_delay

\* C9: a 200 answer whose body is not JSON ends the wrapped call at once with
\* the HTTPError built for it.
C9_InvalidJsonRaisesHTTPError ==
    (hist # <<>> /\ LastCall.out.status = 200 /\ LastCall.out.body = "invalid")
        => /\ pc # "attempt"
           /\ raised.kind = "HTTPError"

\* C10: a 204 answer to a page request is returned without error and the
\* pass that receives it ends normally.
C10_EmptyResponseEndsPassNormally ==
    (purpose = "page" /\ hist # <<>> /\ LastCall.out.status = 204)
        => /\ pc \in {"returned", "pass_done"}
           /\ response.out = LastCall.out
           /\ raised = NoException

(* ------------------------ properties of a pass ------------------------ *)
\* records in the data arrays of the first k pages the service handed out
RECURSIVE RecordsBefore(_)
RecordsBefore(k) == IF k = 0 THEN 0 ELSE RecordsBefore(k - 1) + served[k].n

FilterKeys == {"filter[accountId]", "filter[updatedAt][GT]"}
OffsetOf(p) == Wire(p["page[offset]"])

\* C11: over a finite run of pages, whether or not the last of them carries
\* links.next, get_records ends with the last page: it issues no more
\* requests than the service has pages, and what it has yielded is the
\* in-order concatenation of the data arrays of the pages it has taken in,
\* nothing dropped, repeated or reordered; when the pass ends normally every
\* page the service handed out has been taken in.
C11_YieldsConcatenationOfPages ==
    /\ pages <= Len(served)
    /\ Len(requests_sent) <= server.pages
    /\ pages = server.pages => pc \in {"pass_done", "pass_abandoned"}
    /\ Len(yielded) = RecordsBefore(pages)
    /\ \A k \in 1..pages : \A i \in 1..served[k].n :
           yielded[RecordsBefore(k - 1) + i] = <<k, i>>
    /\ pc = "pass_done" => pages = Len(served)

\* C12: a pass in which no request failed issues one HTTP request per page:
\* every wrapped call invoked the request once, the pass ended after the
\* first page without links.next, every earlier page carried one, and n pages
\* took n requests.
C12_OneRequestPerPage ==
    /\ Len(hist) <= 1
    /\ pc = "pass_done" =>
          /\ Len(hist) = 1
          /\ Len(requests_sent) = pages
          /\ pages = Len(served)
          /\ ~served[pages].next.present
          /\ \A k \in 1..(pages - 1) : served[k].next.present

C12_Witness ==
    /\ pc = "pass_done"
    /\ pages >= 2
    /\ Len(requests_sent) = pages

\* C13 as stated: the request that follows a page with links.next carries
\* exactly the query parameters of the link and nothing else.
C13_NextRequestIsLinkVerbatim ==
    \A i \in 2..Len(requests_sent) : requests_sent[i] = served[i - 1].next.query

\* C13: the request that follows a page with links.next carries the previous
\* request's parameters updated from the link: a key the link names takes the
\* link's value, a key the link does not name keeps its value and is sent.
C13_NextRequestMergesLink ==
    \A i \in 2..Len(requests_sent) : \A k \in ParamKeys :
        LET linked == served[i - 1].next.query[k]
        IN  IF linked # Absent
            THEN requests_sent[i][k] = linked
            ELSE requests_sent[i][k] = requests_sent[i - 1][k]

C13_Witness ==
    /\ Len(requests_sent) >= 2
    /\ served[1].next.query["page[offset]"] # Absent
    /\ \E k \in ParamKeys :
          /\ served[1].next.query[k] = Absent
          /\ requests_sent[2][k] # Absent

C15_OffsetNeverDecreases ==
    \A i \in 2..Len(requests_sent) :
        OffsetOf(requests_sent[i]) >= OffsetOf(requests_sent[i - 1])

\* C15: the client never moves the offset itself: the page[offset] of a
\* request after the first is the one the preceding links.next names, or the
\* preceding request's when the link names none, so it decreases only when a
\* link names a smaller offset.
C15_OffsetFollowsLink ==
    \A i \in 2..Len(requests_sent) :
        LET linked == served[i - 1].next.query["page[offset]"]
        IN  OffsetOf(requests_sent[i]) =
                IF linked # Absent THEN Wire(linked)
                ELSE OffsetOf(requests_sent[i - 1])

C15_Witness ==
    \E i \in 2..Len(requests_sent) :
        /\ OffsetOf(requests_sent[i]) < OffsetOf(requests_sent[i - 1])
        /\ Wire(served[i - 1].next.query["page[offset]"]) = OffsetOf(requests_sent[i])

\* C16: a second call of get_records with the mapping of a completed or
\* abandoned multi-page pass starts again at the caller's own offset (0 when
\* the caller named none) with the caller's filters: the mapping does not
\* carry the previous pass's offset into it.
C16_SecondPassStartsAfresh ==
    (pass_no >= 2 /\ requests_sent # <<>>) =>
        /\ OffsetOf(requests_sent[1]) =
              IF caller_params["page[offset]"] = Absent THEN 0
              ELSE Wire(caller_params["page[offset]"])
        /\ \A k \in FilterKeys :
              Wire(requests_sent[1][k]) = Wire(caller_params[k])

(* ------------------- properties of an offset-paged list --------------- *)
\* C17: an offset-paginated list method requests the offsets 0, 25, 50, ...
\* with page[limit] 25, whatever page keys the caller gave; it ends after the
\* first page holding fewer than 25 records and not before, so after a full
\* page it always requests once more, and a list whose last records fill a
\* page costs one further request that returns no record.
C17_OffsetsAdvanceByPageSize ==
    /\ \A i \in 1..Len(requests_sent) :
          /\ requests_sent[i]["page[offset]"] = IntVal((i - 1) * 25)
          /\ requests_sent[i]["page[limit]"] = IntVal(25)
    /\ \A k \in 1..pages :
          served[k].n = 25 => (Len(requests_sent) > k \/ pc = "attempt")
    /\ pc = "pass_done" =>
          /\ Len(requests_sent) = pages
          /\ pages = Len(served)
          /\ served[pages].n < 25
          /\ \A k \in 1..(pages - 1) : served[k].n = 25
          /\ Len(yielded) = 25 * (pages - 1) + served[pages].n

C17_Witness ==
    /\ pc = "pass_done"
    /\ pages = 3
    /\ served[2].n = 25
    /\ served[3].n = 0
    /\ caller_params["page[offset]"] # Absent

(* --------------------- properties of the authenticator ---------------- *)
\* C18 as stated: get_auth_headers sends a token request exactly when it
\* holds no token or now >= expires_at - 300, the boundary instant included.
C18_RefreshIffWithinMarginInclusive ==
    auth_call.made =>
        (auth_call.posted <=>
            \/ auth_call.tok_before = None
            \/ auth_call.at >= auth_call.exp_before - 300)

\* C18: get_auth_headers sends a token request exactly when it holds no
\* token, holds no expiry, or now > expires_at - 300; at the boundary instant
\* now = expires_at - 300 the held token is still used.
C18_RefreshIffWithinMargin ==
    auth_call.made =>
        (auth_call.posted <=>
            \/ auth_call.tok_before = None
            \/ auth_call.exp_before = None
            \/ auth_call.at > auth_call.exp_before - 300)

C18_Witness ==
    /\ auth_call.made
    /\ auth_call.tok_before # None
    /\ auth_call.at = auth_call.exp_before - 300
    /\ ~auth_call.posted
    /\ headers = auth_call.tok_before

\* C19: under a clock that never runs backward, a call made after a refresh
\* succeeded and before the clock reaches that token's expiry less 300 sends
\* no token request and returns the token of that refresh.
C19_NoRefreshBeforeMargin ==
    (/\ auth_call.made
     /\ auth_call.issued_before.tok # None
     /\ auth_call.at < auth_call.issued_before.at + auth_call.issued_before.expires_in - 300)
    => /\ ~auth_call.posted
       /\ ~auth_call.raised
       /\ headers = auth_call.issued_before.tok

C19_Witness ==
    /\ auth_call.made
    /\ auth_call.issued_before.tok # None
    /\ auth_call.at > auth_call.issued_before.at
    /\ auth_call.at < auth_call.issued_before.at + auth_call.issued_before.expires_in - 300
    /\ ~auth_call.posted

\* C20: when a call that tried a refresh has returned or raised, the held
\* pair (access_token, expires_at) is the pair held before the call or the
\* pair of the new token, never one field of each; an answer lacking
\* expires_in leaves both fields as they were.
C20_TokenPairReplacedWhole ==
    (auth_call.made /\ auth_call.posted) =>
        \/ /\ access_token = auth_call.tok_before
           /\ access_token_expires_at = auth_call.exp_before
        \/ /\ auth_call.answer.kind \in {"ok", "config_unwritable"}
           /\ access_token = auth_call.new_tok
           /\ access_token_expires_at = auth_call.at + auth_call.answer.expires_in

\* the answers C21 is about: a non-2xx status, or a 2xx body lacking
\* access_token or expires_in
FailedAnswerKinds == {"no_expires_in", "no_access_token", "request_error"}

\* C21: a refresh answered by a non-2xx status or by a body lacking
\* access_token or expires_in ends in an error raised to the caller: the call
\* sends one token request and returns no headers, and the token of the
\* failed refresh is never handed out as headers by the call that follows.
C21_FailedRefreshIsFatal ==
    [][/\ token_requests' <= token_requests + 1
       /\ (auth_call'.posted /\ auth_call'.answer.kind \in FailedAnswerKinds /\ auth_call' # auth_call)
              => (pc' = "auth_raised" /\ headers' = headers)
       /\ (auth_call.raised /\ auth_call.answer.kind \in FailedAnswerKinds /\ headers' # headers)
              => headers' # auth_call.new_tok]_vars

(* ------------------ properties of stored tokens and reuse ------------- *)
\* C22: a client built from the configuration a successful refresh left,
\* before the stored expiry, finishes construction without a token request
\* and sends the stored token; the refresh is the last client's (which wrote
\* to its config dict) or the authenticator's (which wrote the config file).
C22_StoredTokenReusedWithoutRequest ==
    [][(pc = "new" /\ pc' # "new") =>
          /\ (/\ config.apiCredentials.access_token # None
              /\ now < config.apiCredentials.token_expires_at)
                => /\ pc' = "ready"
                   /\ token_requests' = token_requests
                   /\ authorization' = Bearer(config.apiCredentials.access_token)
          /\ (/\ config.apiCredentials.access_token = None
              /\ issued.tok # None
              /\ config.access_token = issued.tok
              /\ now < config.token_expires_at)
                => /\ pc' = "ready"
                   /\ token_requests' = token_requests
                   /\ authorization' = Bearer(issued.tok)]_vars

\* C23 as stated: every stored or persisted expiry of a freshly minted
\* token is exactly the instant of minting plus expires_in.
C23_StoredExpiryIsNowPlusExpiresIn ==
    /\ (issued.tok # None /\ access_token = issued.tok)
          => access_token_expires_at = issued.at + issued.expires_in
    /\ issued.tok # None
          => config_file.token_expires_at = issued.at + issued.expires_in
    /\ (pc = "ready" /\ token_type = "bearer")
          => token_expires_at = now + ExpiresIn
    /\ config.apiCredentials.access_token # None
          => config.apiCredentials.token_expires_at = now + ExpiresIn

\* C23: the authenticator stores and writes to the config file exactly the
\* instant of minting plus expires_in (its buffer is applied when validity is
\* tested); OptiplyAPI._update_token stores, and writes to its config dict,
\* the instant of minting plus expires_in less 60: there the margin is
\* subtracted when the expiry is stored.
C23_StoredExpiryPerComponent ==
    /\ (issued.tok # None /\ access_token = issued.tok)
          => access_token_expires_at = issued.at + issued.expires_in
    /\ issued.tok # None
          => /\ config_file.access_token = issued.tok
             /\ config_file.token_expires_at = issued.at + issued.expires_in
    /\ (pc = "ready" /\ token_type = "bearer")
          => token_expires_at = now + ExpiresIn - 60
    /\ config.apiCredentials.access_token # None
          => config.apiCredentials.token_expires_at = now + ExpiresIn - 60

C23_Witness ==
    /\ pc = "ready"
    /\ token_type = "bearer"
    /\ token_expires_at = now + ExpiresIn - 60
    /\ config.apiCredentials.access_token = token
    /\ issued.tok # None
    /\ access_token = issued.tok
    /\ config_file.token_expires_at = issued.at + issued.expires_in

(* --------------------- properties of concurrent callers --------------- *)
\* C24: the refresh is single-flight: at no time are the token requests of
\* two callers in flight together, and two callers that have both returned
\* hold headers with the same token.
C24_RefreshIsSingleFlight ==
    /\ Cardinality({c \in Callers : callers[c].pc = "posting"}) <= 1
    /\ (\A c \in Callers : callers[c].pc = "done")
          => \A c, d \in Callers : callers[c].headers = callers[d].headers

(* ------------------- properties of a long-running sync ---------------- *)
\* C25: every page request of a pass is sent with a bearer token that has
\* not expired when the request goes out: had the held token run out since
\* the last page, it was refreshed before this request.
C25_PageRequestsCarryUnexpiredToken ==
    purpose = "page" =>
        \A i \in DOMAIN hist :
            /\ hist[i].auth.scheme = "Bearer"
            /\ hist[i].at < token_expires_at + TokenMargin

(* ------------------------ properties of the streams ------------------- *)
\* C26: every page request of a stream's sync carries as
\* filter[updatedAt][GT] the instant of the stream's prior bookmark when the
\* state holds one, whether or not a start_date is configured; without a
\* bookmark it carries the instant of the configured start_date, and no such
\* filter when neither exists.
C26_FilterFromBookmarkElseStartDate ==
    stream.made =>
        \A i \in DOMAIN requests_sent :
            LET v == requests_sent[i]["filter[updatedAt][GT]"]
            IN  IF stream.bookmark # NoTime
                THEN v # Absent /\ Wire(v) = stream.bookmark[2]
                ELSE IF stream.start_date # NoTime
                THEN v # Absent /\ Wire(v) = stream.start_date[2]
                ELSE v = Absent

C26_Witness ==
    /\ stream.made
    /\ stream.bookmark # NoTime
    /\ stream.start_date # NoTime
    /\ stream.bookmark[2] # stream.start_date[2]
    /\ pc = "pass_done"
    /\ Len(requests_sent) >= 2

\* C27: every page request made for a stream that the tap discovered
\* carries filter[accountId] with the configured account_id, also when
\* get_records was called without a context.
C27_EveryRequestCarriesAccountFilter ==
    stream.made =>
        \A i \in DOMAIN requests_sent :
            requests_sent[i]["filter[accountId]"] = IntVal(stream.self_context.account_id)

\* C28: a record whose attributes contain updatedAt is emitted with a
\* top-level updatedAt equal to attributes.updatedAt, whatever top-level
\* value it came with; a record without attributes.updatedAt is emitted as
\* it came; id and attributes of every record are as they came.
C28_UpdatedAtFlattenedAttributesWin ==
    \A i \in DOMAIN emitted :
        LET r == emitted[i].in
            e == emitted[i].out
        IN  /\ (r.attributes.present /\ r.attributes.updatedAt # Missing)
                  => e.updatedAt = r.attributes.updatedAt
            /\ ~(r.attributes.present /\ r.attributes.updatedAt # Missing)
                  => e = r
            /\ e.id = r.id
            /\ e.attributes = r.attributes
            /\ DOMAIN e = DOMAIN r

C28_Witness ==
    /\ Len(emitted) = 2
    /\ emitted[1].in.attributes.present
    /\ emitted[1].in.attributes.updatedAt = TextOf(BookmarkInstant)
    /\ emitted[1].in.updatedAt = TextOf(StartDateInstant)
    /\ emitted[1].out.updatedAt = TextOf(BookmarkInstant)
    /\ emitted[2].in.attributes.present
    /\ emitted[2].in.attributes.updatedAt = Missing
    /\ emitted[2].in.updatedAt = TextOf(StartDateInstant)
    /\ emitted[2].out = emitted[2].in

(* --------------------- properties of a failed pass -------------------- *)
\* C32: when a page fetch of get_records has raised, the pass is over with
\* that error: the failed request is the last one sent, the records yielded
\* are those of the pages received before it and nothing else, and a pass
\* never ends normally on a fetch that raised.
C32_FailedFetchEndsPass ==
    /\ pc = "pass_failed" =>
          /\ raised # NoException
          /\ Len(served) = pages
          /\ Len(requests_sent) = pages + 1
          /\ Len(yielded) = RecordsBefore(pages)
    /\ pc = "pass_done" =>
          /\ raised = NoException
          /\ LastCall.out.status = 200
          /\ Len(requests_sent) = pages

C32_Witness ==
    /\ pc = "pass_failed"
    /\ pages = 1
    /\ Len(yielded) = 1
    /\ raised = [kind |-> "HTTPError", status |-> 500]
    /\ Len(hist) = max_retries
    /\ Len(requests_sent) = 2

(* ------------------- further properties of the wrapper ---------------- *)
\* the exceptions of func that are neither HTTPError nor Timeout
OtherException(o) == MakeRequest(o).kind \in {"RequestException", "AttributeError"}

\* the sum of the delays slept so far in this wrapped call
RECURSIVE SleptUpTo(_)
SleptUpTo(n) == IF n = 0 THEN 0 ELSE SleptUpTo(n - 1) + sleeps[n].delay

\* C34: a wrapped call invokes the function at most max_retries +
\* max_504_retries times and is over after that many; when it has returned,
\* the result is that of its last invocation and every earlier invocation
\* failed; when it has raised, the error is that of its last invocation.
C34_WrapperEndsWithinBudget ==
    /\ Len(hist) <= max_retries + max_504_retries
    /\ Len(hist) = max_retries + max_504_retries => pc # "attempt"
    /\ \A i \in DOMAIN hist :
          MakeRequest(hist[i].out).kind = "return" => (i = Len(hist) /\ pc # "attempt")
    /\ (hist # <<>> /\ pc = "returned") =>
          /\ response.out = LastCall.out
          /\ MakeRequest(LastCall.out).kind = "return"
    /\ (hist # <<>> /\ pc = "raised") => raised = MakeRequest(LastCall.out)

C34_Witness ==
    /\ pc = "raised"
    /\ Len(hist) = max_retries + max_504_retries
    /\ N504 = max_504_retries
    /\ NTimeout = 1
    /\ raised = MakeRequest(LastCall.out)

\* C35: an invocation that raises an exception other than HTTPError and
\* Timeout is the last of its wrapped call: that exception is what the call
\* raises, no sleep follows it and it moves neither counter; when it is the
\* first invocation, the call made one invocation, slept never and both
\* counters are zero.
C35_OtherExceptionPassesThrough ==
    \A i \in DOMAIN hist :
        OtherException(hist[i].out) =>
            /\ i = Len(hist)
            /\ pc # "attempt"
            /\ raised = MakeRequest(hist[i].out)
            /\ Len(sleeps) = i - 1
            /\ gateway_timeout_count = N504
            /\ retry_count = NTimeout + NOtherHttp + NOverBudget504
            /\ i = 1 => (sleeps = <<>> /\ retry_count = 0 /\ gateway_timeout_count = 0)

C35_Witness ==
    /\ pc = "raised"
    /\ Len(hist) = 1
    /\ hist[1].out.kind = "ConnectionError"
    /\ raised.kind = "RequestException"
    /\ sleeps = <<>>

\* C38: the n-th sleep of a wrapped call lasts initial_delay * 2^(n-1)
\* whatever error caused it, and the time slept in one call never exceeds
\* initial_delay * (2^(max_retries + max_504_retries - 1) - 1).
C38_TotalSleepBounded ==
    /\ \A n \in DOMAIN sleeps : sleeps[n].delay = initial_delay * Pow2(n - 1)
    /\ SleptUpTo(Len(sleeps)) <= initial_delay * (Pow2(max_retries + max_504_retries - 1) - 1)

C38_Witness ==
    /\ Len(sleeps) = max_retries + max_504_retries - 1
    /\ SleptUpTo(Len(sleeps)) = initial_delay * (Pow2(max_retries + max_504_retries - 1) - 1)
    /\ \E i, j \in DOMAIN sleeps : sleeps[i].counter # sleeps[j].counter

\* C33: a client constructed from a configuration that carries an
\* access_token holds exactly that token once construction is over, and
\* construction has sent no token request to replace it.
C33_ConfiguredTokenKept ==
    (pc = "ready" /\ config.access_token # None) =>
        /\ token = config.access_token
        /\ token_requests = 0

\* C36: once construction is over the client holds a token and the session's
\* Authorization header is "Bearer <that token>", never the Basic header.
C36_ConstructedClientSendsBearer ==
    pc = "ready" =>
        /\ token # None
        /\ authorization = Bearer(token)


\* C37: whether get_records goes on after a page depends on links.next alone
\* and never on the number of records in the page: every page taken in that
\* carried links.next, empty or short or full, was followed by another
\* request, and a page without links.next, however full, ended the pass.
C37_StopDependsOnLinkOnly ==
    /\ \A k \in 1..pages :
           /\ served[k].next.present <=> ~(k = pages /\ pc = "pass_done")
           /\ k < pages => Len(requests_sent) > k
    /\ pc = "pass_done" => Len(requests_sent) = pages

C37_Witness ==
    /\ pc = "pass_done"
    /\ pages = 2
    /\ served[1].n = 0
    /\ served[1].next.present
    /\ served[2].n = server.len
    /\ server.len > 0
    /\ ~served[2].next.present
    /\ Len(requests_sent) = 2


\* C39: a line stream called with its parent's order id in the context sends
\* requests that carry the parent filter and the page parameters and neither
\* the updatedAt filter nor the account filter, and yields the records as
\* the client gave them; called without the order id it sends the filters
\* TapOptiplyStream.get_records builds and yields the records flattened.
C39_LineStreamFollowsParentContext ==
    stream.made =>
        IF HasOrder(stream.context)
        THEN /\ \A i \in DOMAIN requests_sent :
                    /\ requests_sent[i]["filter[buyOrderId]"] = stream.context.buyOrderId
                    /\ requests_sent[i]["filter[updatedAt][GT]"] = Absent
                    /\ requests_sent[i]["filter[accountId]"] = Absent
                    /\ requests_sent[i]["page[limit]"] # Absent
                    /\ requests_sent[i]["page[offset]"] # Absent
             /\ \A j \in DOMAIN emitted : emitted[j].out = emitted[j].in
        ELSE /\ \A i \in DOMAIN requests_sent :
                    /\ requests_sent[i]["filter[buyOrderId]"] = Absent
                    /\ \A k \in FilterKeys :
                           requests_sent[i][k] =
                               StreamParams(StartingTime(stream.rep_key, stream.start_date),
                                            stream.context)[k]
             /\ \A j \in DOMAIN emitted : emitted[j].out = Flatten(emitted[j].in)

C39_Witness ==
    /\ stream.made
    /\ HasOrder(stream.context)
    /\ stream.context.account_id # None
    /\ stream.start_date # NoTime
    /\ pc = "pass_done"
    /\ Len(requests_sent) = 2
    /\ \E j \in DOMAIN emitted :
           /\ emitted[j].in.attributes.present
           /\ emitted[j].in.attributes.updatedAt # emitted[j].in.updatedAt
           /\ emitted[j].out = emitted[j].in

====
